---- MODULE Spec2Model ----
(***************************************************************************)
(* Attainment and report views of the OBE portal backend                   *)
(* (obe-portal-backend/api/views/attainment.py, views/reporting.py) over   *)
(* the entity store of api/models.py.                                      *)
(*                                                                         *)
(* The store is the database: one variable per table.  A request is a      *)
(* process with its own locals (kwargs, the queryset it iterates, its      *)
(* accumulator, its response); a step of a request is one database read    *)
(* together with the pure Python that follows it.  Each request carries    *)
(* request.user, checked by permission_classes = [IsAuthenticated].        *)
(* Writers are the ModelViewSets of views/assessment.py and                *)
(* views/course.py.                                                        *)
(*                                                                         *)
(* Spec interleaves requests and writers; SpecRO runs requests over an     *)
(* unchanging store; SpecStores runs them over stores with JSON the loops  *)
(* cannot index, a score above maxMarks, two courses, and the worked       *)
(* example; SpecCallers runs them for any two callers; SpecFaults lets     *)
(* the reads of the store fail; SpecReports adds the report requests.      *)
(*                                                                         *)
(* Rows carry the columns the views read.  Section has no column and no    *)
(* relation named course, so the branch of AssessmentsOfCourse that reads  *)
(* one is the branch Django never takes.                                   *)
(*                                                                         *)
(* Percentages are exact fractions <<numerator, denominator>> in lowest    *)
(* terms (Python computes them as floats).                                 *)
(***************************************************************************)
EXTENDS Integers, Sequences, FiniteSets, TLC

\* ------------------------------------------------------------------ bounds

\* Largest value of a question's maxMarks and of a score's marks in the rows
\* the writers store.
MaxMark == 1

\* Identifier universes: every table's primary keys are drawn from these,
\* and so are the ids a request may name (stored or not).
ProgramIds == {1, 2, 3}
CourseIds == {1, 2}
StudentIds == {1, 2, 3}
CoIds == {1, 2}
AssessmentIds == {1}

\* Request slots (worker threads serving requests at the same time).
Reqs == {1, 2}

\* CoPoMapping.LEVEL_CHOICES
LEVEL_CHOICES == {1, 2, 3}

\* User.ROLE_CHOICES
ROLE_CHOICES == {"Teacher", "Program Co-ordinator", "University", "Admin", "Department"}

\* ------------------------------------------------------------------ state

VARIABLES
    programs,           \* Program rows: set of ids
    courses,            \* Course rows: id -> [program]
    sections,           \* Section rows: id -> [program]
    students,           \* Student rows: set of ids
    enrollments,        \* Enrollment rows: set of [course, student, section]
    course_outcomes,    \* CourseOutcome rows: id -> [course]
    program_outcomes,   \* ProgramOutcome rows: id -> [program]
    co_po_mappings,     \* CoPoMapping rows: set of [course, co, po, level]
    assessments,        \* Assessment rows: id -> [section, questions]
    marks,              \* Mark rows: set of [student, assessment, scores]
    pc,                 \* per request: "idle", "get", "courses", "calc", "enrollments", "done"
    kwargs,             \* per request: [view, id]
    todo,               \* per request: the rows its outer loop has still to visit
    po_attainment,      \* per request: ProgramAttainmentView.get's local
    co_attainment,      \* per request: StudentAttainmentView.get's local
    response,           \* per request: the Response it returned
    user                \* per request: request.user, [is_authenticated, role, program]

storeVars == <<programs, courses, sections, students, enrollments,
               course_outcomes, program_outcomes, co_po_mappings,
               assessments, marks>>
reqVars == <<pc, kwargs, todo, po_attainment, co_attainment, response, user>>
vars == <<programs, courses, sections, students, enrollments,
          course_outcomes, program_outcomes, co_po_mappings,
          assessments, marks,
          pc, kwargs, todo, po_attainment, co_attainment, response, user>>

\* ------------------------------------------------------------------ helpers

EmptyMap == [x \in {} |-> 0]

Min(S) == CHOOSE x \in S : \A y \in S : x <= y

RECURSIVE Gcd(_, _)
Gcd(a, b) == IF b = 0 THEN a ELSE Gcd(b, a % b)

\* scored / total * 100 as a fraction in lowest terms
Fraction(n, d) == LET g == Gcd(n, d) IN <<n \div g, d \div g>>

Zero == <<0, 1>>

\* A queryset without order_by is iterated here in ascending key order.
RECURSIVE OrderedIds(_)
OrderedIds(S) ==
    IF S = {} THEN <<>>
    ELSE LET m == Min(S) IN <<m>> \o OrderedIds(S \ {m})

\* ------------------------------------------------------------------ the ORM

\* The names a filter() keyword may use after "section__": the fields of
\* Section (id, name, program, batch), their attnames, and the reverse
\* relations of the foreign keys that point at Section (Student.section with
\* related_name students, Enrollment.section, Assessment.section with
\* related_name assessments).  Section declares no relation to Course.
SectionLookups ==
    {"id", "pk", "name", "program", "program_id", "batch", "batch_id",
     "students", "enrollment", "assessments"}

\* Assessment.objects.filter(section__course=course): Django resolves the
\* keyword against Section when filter() is called and raises when the name
\* is no field, relation or lookup of it; the exception is not caught by the
\* views.  ok = FALSE stands for that exception.
AssessmentsOfCourse(course) ==
    IF "course" \in SectionLookups
    THEN [ok |-> TRUE,
          rows |-> {a \in DOMAIN assessments :
                      sections[assessments[a].section].course = course}]
    ELSE [ok |-> FALSE, rows |-> {}]

\* Assessment.objects.filter(section__course=course, section=enrollment.section)
AssessmentsOfEnrollment(enrollment) ==
    LET q == AssessmentsOfCourse(enrollment.course)
    IN [ok |-> q.ok,
        rows |-> {a \in q.rows : assessments[a].section = enrollment.section}]

\* Mark.objects.filter(assessment=assessment)
MarksOfAssessment(a) == {m \in marks : m.assessment = a}

\* Mark.objects.get(assessment=assessment, student=student); the empty set
\* stands for Mark.DoesNotExist.
MarkOfStudent(a, student) ==
    {m \in marks : m.assessment = a /\ m.student = student}

\* Course.objects.filter(program=program)
CoursesOfProgram(program) == {c \in DOMAIN courses : courses[c].program = program}

\* CoPoMapping.objects.filter(course=course)
MappingsOfCourse(course) == {m \in co_po_mappings : m.course = course}

\* student.enrollment_set.all()
EnrollmentsOfStudent(student) == {e \in enrollments : e.student = student}

\* A lookup in the wrong table: the course and student views ask Program,
\* the program view asks Course.
ObjectsGetWrongTable(view, id) ==
    CASE view = "program" -> id \in DOMAIN courses
      [] view = "course"  -> id \in programs
      [] view = "student" -> id \in programs

\* Program.objects.get(id=...), Course.objects.get(id=...),
\* Student.objects.get(id=...): FALSE stands for DoesNotExist.
ObjectsGet(view, id) ==
    CASE view = "program" -> id \in programs
      [] view = "course"  -> id \in DOMAIN courses
      [] view = "student" -> id \in students

\* ------------------------------------------------------------------ accumulation

\* What a loop body hands on: the accumulators, or ok = FALSE for a KeyError
\* raised by an index into a question or a score entry that lacks the key.
Completed(acc) == [ok |-> TRUE, value |-> acc]

Raised == [ok |-> FALSE, value |-> EmptyMap]

\* next((q for q in assessment.questions if q['q'] == score['q']), None):
\* the questions are tried in list order from position i; each trial indexes
\* q['q'] and score['q'].  index is the first question with the score's q,
\* 0 for None.
RECURSIVE FirstMatch(_, _, _)
FirstMatch(questions, score, i) ==
    IF i > Len(questions) THEN [ok |-> TRUE, index |-> 0]
    ELSE IF ~("q" \in DOMAIN questions[i] /\ "q" \in DOMAIN score)
         THEN [ok |-> FALSE, index |-> 0]
    ELSE IF questions[i].q = score.q THEN [ok |-> TRUE, index |-> i]
    ELSE FirstMatch(questions, score, i + 1)

MatchingQuestion(questions, score) == FirstMatch(questions, score, 1)

\* for co_id in question['coIds']: create the accumulator on first sight,
\* then add question['maxMarks'] and score['marks'] to it.
RECURSIVE AddCoIds(_, _, _, _)
AddCoIds(acc, coIds, question, score) ==
    IF coIds = <<>> THEN Completed(acc)
    ELSE IF ~("maxMarks" \in DOMAIN question /\ "marks" \in DOMAIN score)
         THEN Raised
    ELSE LET co_id == Head(coIds)
             a0 == IF co_id \in DOMAIN acc THEN acc
                   ELSE acc @@ (co_id :> [total_marks |-> 0, scored_marks |-> 0])
             a1 == [a0 EXCEPT ![co_id] =
                       [total_marks |-> @.total_marks + question.maxMarks,
                        scored_marks |-> @.scored_marks + score.marks]]
         IN AddCoIds(a1, Tail(coIds), question, score)

\* for score in mark.scores: ... if question: for co_id in question['coIds']
RECURSIVE AddScores(_, _, _)
AddScores(acc, questions, scores) ==
    IF scores = <<>> THEN Completed(acc)
    ELSE LET score == Head(scores)
             m == MatchingQuestion(questions, score)
         IN IF ~m.ok THEN Raised
            ELSE IF m.index = 0 THEN AddScores(acc, questions, Tail(scores))
            ELSE IF "coIds" \notin DOMAIN questions[m.index] THEN Raised
            ELSE LET a1 == AddCoIds(acc, questions[m.index].coIds,
                                    questions[m.index], score)
                 IN IF a1.ok THEN AddScores(a1.value, questions, Tail(scores))
                    ELSE Raised

\* for mark in marks: ...
RECURSIVE AddMarks(_, _, _)
AddMarks(acc, questions, rows) ==
    IF rows = {} THEN Completed(acc)
    ELSE LET m == CHOOSE x \in rows : \A y \in rows : x.student <= y.student
             a1 == AddScores(acc, questions, m.scores)
         IN IF a1.ok THEN AddMarks(a1.value, questions, rows \ {m}) ELSE Raised

\* for assessment in assessments: marks = Mark.objects.filter(...) ...
RECURSIVE AddAssessments(_, _)
AddAssessments(acc, ids) ==
    IF ids = {} THEN Completed(acc)
    ELSE LET a == Min(ids)
             a1 == AddMarks(acc, assessments[a].questions, MarksOfAssessment(a))
         IN IF a1.ok THEN AddAssessments(a1.value, ids \ {a}) ELSE Raised

\* (scored_marks / total_marks) * 100 if total_marks > 0 else 0
Percentage(data) ==
    IF data.total_marks > 0
    THEN Fraction(100 * data.scored_marks, data.total_marks)
    ELSE Zero

\* for co_id, data in co_attainment.items(): co_attainment[co_id] = ...
Reduce(acc) == [co_id \in DOMAIN acc |-> Percentage(acc[co_id])]

\* CourseAttainmentView.calculate_co_attainment
CourseCalculateCoAttainment(course) ==
    LET q == AssessmentsOfCourse(course)
        acc == AddAssessments(EmptyMap, q.rows)
    IN IF q.ok /\ acc.ok THEN Completed(Reduce(acc.value)) ELSE Raised

\* A copy of the aggregator that drifted from the other: it takes a course
\* whose assessments cannot be resolved for a course without assessments.
ProgramCalculateLenient(course) ==
    LET q == AssessmentsOfCourse(course)
        acc == AddAssessments(EmptyMap, q.rows)
    IN IF acc.ok THEN Completed(Reduce(acc.value)) ELSE Raised

\* ProgramAttainmentView.calculate_co_attainment
ProgramCalculateCoAttainment(course) ==
    LET q == AssessmentsOfCourse(course)
        acc == AddAssessments(EmptyMap, q.rows)
    IN IF q.ok /\ acc.ok THEN Completed(Reduce(acc.value)) ELSE Raised

\* co_attainment.get(mapping.co.id, 0)
DictGet(d, k) == IF k \in DOMAIN d THEN d[k] ELSE Zero

\* for mapping in co_po_mappings: create the PO's bucket on first sight and
\* append {co, attainment, mapping_level} to it.  Rows in (co, po) order.
RECURSIVE AppendMappings(_, _, _)
AppendMappings(po_att, co_att, rows) ==
    IF rows = {} THEN po_att
    ELSE LET m == CHOOSE x \in rows : \A y \in rows :
                      x.co < y.co \/ (x.co = y.co /\ x.po <= y.po)
             p0 == IF m.po \in DOMAIN po_att THEN po_att
                   ELSE po_att @@ (m.po :> <<>>)
             p1 == [p0 EXCEPT ![m.po] =
                       Append(@, [co |-> m.co,
                                  attainment |-> DictGet(co_att, m.co),
                                  mapping_level |-> m.level])]
         IN AppendMappings(p1, co_att, rows \ {m})

\* ------------------------------------------------------------------ responses

NoResponse == [status |-> 0, error |-> "", co_attainment |-> EmptyMap,
               po_attainment |-> EmptyMap]

\* Response({"error": "... not found"}, status=404)
NotFound(view) ==
    [status |-> 404,
     error |-> CASE view = "program" -> "Program not found"
                 [] view = "course"  -> "Course not found"
                 [] view = "student" -> "Student not found",
     co_attainment |-> EmptyMap, po_attainment |-> EmptyMap]

\* The answer of APIView.permission_denied: get() is not called.
PermissionDenied ==
    [status |-> 403, error |-> "permission denied",
     co_attainment |-> EmptyMap, po_attainment |-> EmptyMap]

\* An exception that leaves get(): the framework answers 500.
ServerError ==
    [status |-> 500, error |-> "unhandled exception",
     co_attainment |-> EmptyMap, po_attainment |-> EmptyMap]

\* Response({'program': ..., 'po_attainment': po_attainment})
ProgramResponse(po_att) ==
    [status |-> 200, error |-> "", co_attainment |-> EmptyMap,
     po_attainment |-> po_att]

\* Response({'course': ..., 'co_attainment': co_attainment}) and the
\* student view's Response of the same shape
CoResponse(co_att) ==
    [status |-> 200, error |-> "", co_attainment |-> co_att,
     po_attainment |-> EmptyMap]

\* ------------------------------------------------------------------ values

\* Assessment.questions values the writers may store: one question that fans
\* out to two COs, or two questions sharing one q of which the second is
\* worth nothing.
QuestionLists ==
    { << [q |-> 1, maxMarks |-> MaxMark, coIds |-> <<1, 2>>] >>,
      << [q |-> 1, maxMarks |-> MaxMark, coIds |-> <<1>>],
         [q |-> 1, maxMarks |-> 0, coIds |-> <<2>>] >> }

\* Mark.scores values the writers may store: one entry, full marks or none
\* for question 1, or an entry for q = 2, which matches no question above.
ScoreLists ==
    { << [q |-> 1, marks |-> MaxMark] >>,
      << [q |-> 1, marks |-> 0] >>,
      << [q |-> 2, marks |-> MaxMark] >> }

\* The requests a client may send: a view and the id in its URL.
Requests ==
    {[view |-> "program", id |-> i] : i \in ProgramIds}
    \cup {[view |-> "course", id |-> i] : i \in CourseIds}
    \cup {[view |-> "student", id |-> i] : i \in StudentIds}

NoRequest == [view |-> "none", id |-> 0]

\* request.user of a request without credentials
AnonymousUser == [is_authenticated |-> FALSE, role |-> "", program |-> 0]

\* request.user of the requests of each worker: a teacher of program 1 and
\* an administrator.
LoggedIn ==
    (1 :> [is_authenticated |-> TRUE, role |-> "Teacher", program |-> 1])
    @@ (2 :> [is_authenticated |-> TRUE, role |-> "Admin", program |-> 0])

\* ------------------------------------------------------------------ initial state

\* The database when the server starts: programs 1 and 2, course 1 in
\* program 1 (program 2 has no course), section 1, students 1 and 2 with
\* student 1 enrolled in course 1, two outcomes of course 1 and one outcome
\* of program 1; any stored assessment, marks and mappings.
Init ==
    /\ programs = {1, 2}
    /\ courses = (1 :> [program |-> 1])
    /\ sections = (1 :> [program |-> 1])
    /\ students = {1, 2}
    /\ enrollments = {[course |-> 1, student |-> 1, section |-> 1]}
    /\ course_outcomes = (1 :> [course |-> 1]) @@ (2 :> [course |-> 1])
    /\ program_outcomes = (1 :> [program |-> 1])
    /\ co_po_mappings \in
          { {},
            {[course |-> 1, co |-> 1, po |-> 1, level |-> 3],
             [course |-> 1, co |-> 2, po |-> 1, level |-> 2]} }
    /\ assessments \in
          {EmptyMap} \cup
          {(1 :> [section |-> 1, questions |-> ql]) : ql \in QuestionLists}
    /\ marks \in
          IF assessments = EmptyMap THEN { {} }
          ELSE { {},
                 {[student |-> 1, assessment |-> 1,
                   scores |-> << [q |-> 1, marks |-> MaxMark] >>],
                  [student |-> 2, assessment |-> 1,
                   scores |-> << [q |-> 1, marks |-> 0] >>]} }
    /\ pc = [r \in Reqs |-> "idle"]
    /\ kwargs = [r \in Reqs |-> NoRequest]
    /\ todo = [r \in Reqs |-> <<>>]
    /\ po_attainment = [r \in Reqs |-> EmptyMap]
    /\ co_attainment = [r \in Reqs |-> EmptyMap]
    /\ response = [r \in Reqs |-> NoResponse]
    /\ user = LoggedIn

\* ------------------------------------------------------------------ requests

\* A view that fetches marks with get_or_create: a Mark row with no scores
\* appears for every (student, assessment) pair that had none.
ReadOnlyGetOrCreate ==
    /\ marks' = marks \cup
          {[student |-> p[1], assessment |-> p[2], scores |-> <<>>] :
             p \in {x \in students \X DOMAIN assessments :
                      MarkOfStudent(x[2], x[1]) = {}}}
    /\ UNCHANGED <<programs, courses, sections, students, enrollments,
                   course_outcomes, program_outcomes, co_po_mappings,
                   assessments>>

\* No view of attainment.py calls save(), create(), update() or delete().
ReadOnly == UNCHANGED storeVars

\* A view that admits administrators alone (permissions.IsAdminUser).
HasPermissionAdminOnly(r) == user[r].is_authenticated /\ user[r].role = "Admin"

\* permission_classes = [IsAuthenticated]: request.user and
\* request.user.is_authenticated
HasPermission(r) == user[r].is_authenticated

\* A request arrives: self.kwargs holds the id of the URL, and
\* APIView.initial checks the permission classes before get() is called.
Begin(r) ==
    /\ pc[r] = "idle"
    /\ \E req \in Requests : kwargs' = [kwargs EXCEPT ![r] = req]
    /\ IF HasPermission(r)
       THEN /\ pc' = [pc EXCEPT ![r] = "get"]
            /\ UNCHANGED response
       ELSE /\ pc' = [pc EXCEPT ![r] = "done"]
            /\ response' = [response EXCEPT ![r] = PermissionDenied]
    /\ UNCHANGED <<todo, po_attainment, co_attainment>>
    /\ UNCHANGED user
    /\ ReadOnly

\* The id kept in state shared by the workers: every request in flight
\* reads the id of the lowest busy slot.
LookupIdShared(r) == kwargs[Min({x \in Reqs : pc[x] # "idle"})].id

\* The id get() looks up: self.kwargs.get('program_id') and its like.
LookupId(r) == kwargs[r].id

\* ProgramAttainmentView.get up to the loop over the courses.
ProgramGet(r) ==
    /\ pc[r] = "get" /\ kwargs[r].view = "program"
    /\ IF ObjectsGet("program", LookupId(r))
       THEN /\ todo' = [todo EXCEPT ![r] = OrderedIds(CoursesOfProgram(LookupId(r)))]
            /\ po_attainment' = [po_attainment EXCEPT ![r] = EmptyMap]
            /\ pc' = [pc EXCEPT ![r] = "courses"]
            /\ UNCHANGED response
       ELSE /\ response' = [response EXCEPT ![r] = NotFound("program")]
            /\ pc' = [pc EXCEPT ![r] = "done"]
            /\ UNCHANGED <<todo, po_attainment>>
    /\ UNCHANGED <<kwargs, co_attainment>>
    /\ UNCHANGED user
    /\ ReadOnly

\* One round of "for course in courses".
ProgramCourse(r) ==
    /\ pc[r] = "courses" /\ todo[r] # <<>>
    /\ LET course == Head(todo[r])
           co_att == ProgramCalculateCoAttainment(course)
       IN IF co_att.ok
          THEN /\ po_attainment' = [po_attainment EXCEPT ![r] =
                     AppendMappings(@, co_att.value, MappingsOfCourse(course))]
               /\ todo' = [todo EXCEPT ![r] = Tail(@)]
               /\ UNCHANGED <<pc, response>>
          ELSE /\ response' = [response EXCEPT ![r] = ServerError]
               /\ pc' = [pc EXCEPT ![r] = "done"]
               /\ todo' = [todo EXCEPT ![r] = <<>>]
               /\ po_attainment' = [po_attainment EXCEPT ![r] = EmptyMap]
    /\ UNCHANGED <<kwargs, co_attainment>>
    /\ UNCHANGED user
    /\ ReadOnly

\* return Response({'program': ..., 'po_attainment': po_attainment})
ProgramReturn(r) ==
    /\ pc[r] = "courses" /\ todo[r] = <<>>
    /\ response' = [response EXCEPT ![r] = ProgramResponse(po_attainment[r])]
    /\ po_attainment' = [po_attainment EXCEPT ![r] = EmptyMap]
    /\ pc' = [pc EXCEPT ![r] = "done"]
    /\ UNCHANGED <<kwargs, todo, co_attainment>>
    /\ UNCHANGED user
    /\ ReadOnly

\* CourseAttainmentView.get up to the call of calculate_co_attainment.
CourseGet(r) ==
    /\ pc[r] = "get" /\ kwargs[r].view = "course"
    /\ IF ObjectsGet("course", LookupId(r))
       THEN /\ pc' = [pc EXCEPT ![r] = "calc"]
            /\ UNCHANGED response
       ELSE /\ response' = [response EXCEPT ![r] = NotFound("course")]
            /\ pc' = [pc EXCEPT ![r] = "done"]
    /\ UNCHANGED <<kwargs, todo, po_attainment, co_attainment>>
    /\ UNCHANGED user
    /\ ReadOnly

\* co_attainment = self.calculate_co_attainment(course); return Response(...)
CourseCalc(r) ==
    /\ pc[r] = "calc"
    /\ LET co_att == CourseCalculateCoAttainment(LookupId(r))
       IN response' = [response EXCEPT ![r] =
              IF co_att.ok THEN CoResponse(co_att.value) ELSE ServerError]
    /\ pc' = [pc EXCEPT ![r] = "done"]
    /\ UNCHANGED <<kwargs, todo, po_attainment, co_attainment>>
    /\ UNCHANGED user
    /\ ReadOnly

\* for assessment in assessments: try: mark = Mark.objects.get(...) ...
\* except Mark.DoesNotExist: pass
RECURSIVE AddStudentAssessments(_, _, _)
AddStudentAssessments(acc, ids, student) ==
    IF ids = {} THEN Completed(acc)
    ELSE LET a == Min(ids)
             a1 == AddMarks(acc, assessments[a].questions, MarkOfStudent(a, student))
         IN IF a1.ok THEN AddStudentAssessments(a1.value, ids \ {a}, student)
            ELSE Raised

\* The enrollments of a student, in the order of their courses.
RECURSIVE OrderedEnrollments(_)
OrderedEnrollments(rows) ==
    IF rows = {} THEN <<>>
    ELSE LET e == CHOOSE x \in rows : \A y \in rows : x.course <= y.course
         IN <<e>> \o OrderedEnrollments(rows \ {e})

\* StudentAttainmentView.get up to the loop over the enrollments.
StudentGet(r) ==
    /\ pc[r] = "get" /\ kwargs[r].view = "student"
    /\ IF ObjectsGet("student", LookupId(r))
       THEN /\ todo' = [todo EXCEPT ![r] =
                  OrderedEnrollments(EnrollmentsOfStudent(LookupId(r)))]
            /\ co_attainment' = [co_attainment EXCEPT ![r] = EmptyMap]
            /\ pc' = [pc EXCEPT ![r] = "enrollments"]
            /\ UNCHANGED response
       ELSE /\ response' = [response EXCEPT ![r] = NotFound("student")]
            /\ pc' = [pc EXCEPT ![r] = "done"]
            /\ UNCHANGED <<todo, co_attainment>>
    /\ UNCHANGED <<kwargs, po_attainment>>
    /\ UNCHANGED user
    /\ ReadOnly

\* One round of "for enrollment in enrollments".
StudentEnrollment(r) ==
    /\ pc[r] = "enrollments" /\ todo[r] # <<>>
    /\ LET enrollment == Head(todo[r])
           q == AssessmentsOfEnrollment(enrollment)
           acc == AddStudentAssessments(co_attainment[r], q.rows, LookupId(r))
       IN IF q.ok /\ acc.ok
          THEN /\ co_attainment' = [co_attainment EXCEPT ![r] = acc.value]
               /\ todo' = [todo EXCEPT ![r] = Tail(@)]
               /\ UNCHANGED <<pc, response>>
          ELSE /\ response' = [response EXCEPT ![r] = ServerError]
               /\ pc' = [pc EXCEPT ![r] = "done"]
               /\ todo' = [todo EXCEPT ![r] = <<>>]
               /\ co_attainment' = [co_attainment EXCEPT ![r] = EmptyMap]
    /\ UNCHANGED <<kwargs, po_attainment>>
    /\ UNCHANGED user
    /\ ReadOnly

\* The reduction to percentages and the Response of the student view.
StudentReturn(r) ==
    /\ pc[r] = "enrollments" /\ todo[r] = <<>>
    /\ response' = [response EXCEPT ![r] = CoResponse(Reduce(co_attainment[r]))]
    /\ co_attainment' = [co_attainment EXCEPT ![r] = EmptyMap]
    /\ pc' = [pc EXCEPT ![r] = "done"]
    /\ UNCHANGED <<kwargs, todo, po_attainment>>
    /\ UNCHANGED user
    /\ ReadOnly

\* The response has been sent; the worker is free for the next request.
Finish(r) ==
    /\ pc[r] = "done"
    /\ pc' = [pc EXCEPT ![r] = "idle"]
    /\ kwargs' = [kwargs EXCEPT ![r] = NoRequest]
    /\ response' = [response EXCEPT ![r] = NoResponse]
    /\ UNCHANGED <<todo, po_attainment, co_attainment>>
    /\ UNCHANGED user
    /\ ReadOnly

\* ------------------------------------------------------------------ writers

staticVars == <<programs, courses, sections, students, enrollments,
                course_outcomes, program_outcomes>>

\* MarkViewSet.create: unique_together (student, assessment)
MarkCreate ==
    /\ \E s \in students, a \in DOMAIN assessments, sc \in ScoreLists :
          /\ MarkOfStudent(a, s) = {}
          /\ marks' = marks \cup {[student |-> s, assessment |-> a, scores |-> sc]}
    /\ UNCHANGED <<staticVars, co_po_mappings, assessments, reqVars>>

\* MarkViewSet.update
MarkUpdate ==
    /\ \E m \in marks, sc \in ScoreLists :
          /\ sc # m.scores
          /\ marks' = (marks \ {m}) \cup {[m EXCEPT !.scores = sc]}
    /\ UNCHANGED <<staticVars, co_po_mappings, assessments, reqVars>>

\* MarkViewSet.destroy
MarkDestroy ==
    /\ \E m \in marks : marks' = marks \ {m}
    /\ UNCHANGED <<staticVars, co_po_mappings, assessments, reqVars>>

\* AssessmentViewSet.create
AssessmentCreate ==
    /\ \E a \in AssessmentIds \ DOMAIN assessments, s \in DOMAIN sections,
          ql \in QuestionLists :
          assessments' = assessments @@ (a :> [section |-> s, questions |-> ql])
    /\ UNCHANGED <<staticVars, co_po_mappings, marks, reqVars>>

\* AssessmentViewSet.update
AssessmentUpdate ==
    /\ \E a \in DOMAIN assessments, ql \in QuestionLists :
          /\ ql # assessments[a].questions
          /\ assessments' = [assessments EXCEPT ![a].questions = ql]
    /\ UNCHANGED <<staticVars, co_po_mappings, marks, reqVars>>

\* AssessmentViewSet.destroy: Mark.assessment is on_delete=CASCADE
AssessmentDestroy ==
    /\ \E a \in DOMAIN assessments :
          /\ assessments' = [x \in DOMAIN assessments \ {a} |-> assessments[x]]
          /\ marks' = {m \in marks : m.assessment # a}
    /\ UNCHANGED <<staticVars, co_po_mappings, reqVars>>

\* A CoPoMapping table without the constraint.
UniqueTogetherOff(co, po, rows) == TRUE

\* unique_together = ('co', 'po'): a row for (co, po) is accepted when no
\* row of rows carries the pair.
UniqueTogether(co, po, rows) == \A m \in rows : ~(m.co = co /\ m.po = po)

\* CoPoMappingViewSet.create
CoPoMappingCreate ==
    /\ \E c \in DOMAIN courses, co \in DOMAIN course_outcomes,
          po \in DOMAIN program_outcomes, l \in LEVEL_CHOICES :
          /\ UniqueTogether(co, po, co_po_mappings)
          /\ co_po_mappings' = co_po_mappings \cup
                {[course |-> c, co |-> co, po |-> po, level |-> l]}
    /\ UNCHANGED <<staticVars, assessments, marks, reqVars>>

\* CoPoMappingViewSet.update: any field of the row, the pair (co, po) checked
\* against the other rows
CoPoMappingUpdate ==
    /\ \E m \in co_po_mappings, c \in DOMAIN courses,
          co \in DOMAIN course_outcomes, po \in DOMAIN program_outcomes,
          l \in LEVEL_CHOICES :
          LET row == [course |-> c, co |-> co, po |-> po, level |-> l]
          IN /\ row # m
             /\ UniqueTogether(co, po, co_po_mappings \ {m})
             /\ co_po_mappings' = (co_po_mappings \ {m}) \cup {row}
    /\ UNCHANGED <<staticVars, assessments, marks, reqVars>>

\* CoPoMappingViewSet.destroy
CoPoMappingDestroy ==
    /\ \E m \in co_po_mappings : co_po_mappings' = co_po_mappings \ {m}
    /\ UNCHANGED <<staticVars, assessments, marks, reqVars>>

\* ------------------------------------------------------------------ specifications

RequestStep ==
    \E r \in Reqs :
        \/ Begin(r)
        \/ ProgramGet(r)
        \/ ProgramCourse(r)
        \/ ProgramReturn(r)
        \/ CourseGet(r)
        \/ CourseCalc(r)
        \/ StudentGet(r)
        \/ StudentEnrollment(r)
        \/ StudentReturn(r)
        \/ Finish(r)

Write ==
    \/ MarkCreate
    \/ MarkUpdate
    \/ MarkDestroy
    \/ AssessmentCreate
    \/ AssessmentUpdate
    \/ AssessmentDestroy
    \/ CoPoMappingCreate
    \/ CoPoMappingUpdate
    \/ CoPoMappingDestroy

Next == RequestStep \/ Write

\* Requests and writers interleaved.
Spec == Init /\ [][Next]_vars

\* Requests alone: the store keeps its initial contents.
SpecRO == Init /\ [][RequestStep]_vars

\* ------------------------------------------------------------------ other stores

\* Assessment.questions and Mark.scores are JSONFields: the serializers store
\* any JSON.  A question without coIds followed by one without maxMarks, and
\* the score lists that meet them: an entry without marks, an entry without q.
QuestionsLackingKeys ==
    << [q |-> 1, maxMarks |-> MaxMark], [q |-> 2, coIds |-> <<1>>] >>

ScoresLackingMarks == << [q |-> 1] >>

ScoresLackingQ == << [marks |-> MaxMark] >>

\* One assessment of section 1 and one mark of student 1 on it, in the
\* database of Init.
OneMarkStore(questions, scores) ==
    [courses |-> (1 :> [program |-> 1]),
     enrollments |-> {[course |-> 1, student |-> 1, section |-> 1]},
     course_outcomes |-> (1 :> [course |-> 1]) @@ (2 :> [course |-> 1]),
     program_outcomes |-> (1 :> [program |-> 1]),
     co_po_mappings |-> {[course |-> 1, co |-> 1, po |-> 1, level |-> 3]},
     assessments |-> (1 :> [section |-> 1, questions |-> questions]),
     marks |-> {[student |-> 1, assessment |-> 1, scores |-> scores]}]

\* Stores with a question or a score entry that lacks a key the loops index.
MalformedStores ==
    {OneMarkStore(QuestionsLackingKeys, sc) : sc \in ScoreLists}
    \cup {OneMarkStore(ql, sc) :
            ql \in QuestionLists, sc \in {ScoresLackingMarks, ScoresLackingQ}}

\* A score above the maxMarks of its question: nothing validates Mark.scores
\* against Assessment.questions.
OvermarkedStore ==
    OneMarkStore(<< [q |-> 1, maxMarks |-> MaxMark, coIds |-> <<1, 2>>] >>,
                 << [q |-> 1, marks |-> MaxMark + 1] >>)

\* One assessment with question 1 (10 marks, CO 1) and question 2 (5 marks,
\* COs 1 and 2); student 1 scores 8 and 5, student 2 scores 6 and 3; CO 1 is
\* mapped to PO 1 at level 3 and CO 2 at level 2.
WorkedStore ==
    [courses |-> (1 :> [program |-> 1]),
     enrollments |-> {[course |-> 1, student |-> 1, section |-> 1]},
     course_outcomes |-> (1 :> [course |-> 1]) @@ (2 :> [course |-> 1]),
     program_outcomes |-> (1 :> [program |-> 1]),
     co_po_mappings |-> {[course |-> 1, co |-> 1, po |-> 1, level |-> 3],
                         [course |-> 1, co |-> 2, po |-> 1, level |-> 2]},
     assessments |->
        (1 :> [section |-> 1,
               questions |-> << [q |-> 1, maxMarks |-> 10, coIds |-> <<1>>],
                                [q |-> 2, maxMarks |-> 5, coIds |-> <<1, 2>>] >>]),
     marks |-> {[student |-> 1, assessment |-> 1,
                 scores |-> << [q |-> 1, marks |-> 8], [q |-> 2, marks |-> 5] >>],
                [student |-> 2, assessment |-> 1,
                 scores |-> << [q |-> 1, marks |-> 6], [q |-> 2, marks |-> 3] >>]}]

\* Two courses in program 1, each with one outcome mapped to PO 1: CO 2
\* belongs to course 1 and CO 1 to course 2, so the order of the courses is
\* not the order of the COs.
TwoCourseStore ==
    [courses |-> (1 :> [program |-> 1]) @@ (2 :> [program |-> 1]),
     enrollments |-> {[course |-> 1, student |-> 1, section |-> 1],
                      [course |-> 2, student |-> 1, section |-> 1]},
     course_outcomes |-> (1 :> [course |-> 2]) @@ (2 :> [course |-> 1]),
     program_outcomes |-> (1 :> [program |-> 1]),
     co_po_mappings |-> {[course |-> 1, co |-> 2, po |-> 1, level |-> 2],
                         [course |-> 2, co |-> 1, po |-> 1, level |-> 3]},
     assessments |->
        (1 :> [section |-> 1,
               questions |-> << [q |-> 1, maxMarks |-> MaxMark, coIds |-> <<1, 2>>] >>]),
     marks |-> {[student |-> 1, assessment |-> 1,
                 scores |-> << [q |-> 1, marks |-> MaxMark] >>]}]

\* Course 1 in program 1 and course 2 in program 2, each with its outcome,
\* and a PO for each program.  CoPoMapping has three independent foreign
\* keys (course, co, po): the one row names course 1 with the outcome of
\* course 2 and the PO of program 2.
CrossLinkedStore ==
    [courses |-> (1 :> [program |-> 1]) @@ (2 :> [program |-> 2]),
     enrollments |-> {[course |-> 1, student |-> 1, section |-> 1]},
     course_outcomes |-> (1 :> [course |-> 1]) @@ (2 :> [course |-> 2]),
     program_outcomes |-> (1 :> [program |-> 1]) @@ (2 :> [program |-> 2]),
     co_po_mappings |-> {[course |-> 1, co |-> 2, po |-> 2, level |-> 1]},
     assessments |->
        (1 :> [section |-> 1,
               questions |-> << [q |-> 1, maxMarks |-> MaxMark, coIds |-> <<1, 2>>] >>]),
     marks |-> {[student |-> 1, assessment |-> 1,
                 scores |-> << [q |-> 1, marks |-> MaxMark] >>]}]

\* A question that lists CO 1 twice and a question that lists it once; a
\* mark with two entries for the first question and one for the second.
RepeatedStore ==
    OneMarkStore(<< [q |-> 1, maxMarks |-> MaxMark, coIds |-> <<1, 1>>],
                    [q |-> 2, maxMarks |-> MaxMark, coIds |-> <<1>>] >>,
                 << [q |-> 1, marks |-> MaxMark], [q |-> 1, marks |-> 0],
                    [q |-> 2, marks |-> 0] >>)

OtherStores ==
    MalformedStores
    \cup {OvermarkedStore, WorkedStore, TwoCourseStore, CrossLinkedStore,
          RepeatedStore}

\* The database holds one of the stores above when the server starts.
InitStores ==
    /\ programs = {1, 2}
    /\ sections = (1 :> [program |-> 1])
    /\ students = {1, 2}
    /\ \E st \in OtherStores :
          /\ courses = st.courses
          /\ program_outcomes = st.program_outcomes
          /\ enrollments = st.enrollments
          /\ course_outcomes = st.course_outcomes
          /\ co_po_mappings = st.co_po_mappings
          /\ assessments = st.assessments
          /\ marks = st.marks
    /\ pc = [r \in Reqs |-> "idle"]
    /\ kwargs = [r \in Reqs |-> NoRequest]
    /\ todo = [r \in Reqs |-> <<>>]
    /\ po_attainment = [r \in Reqs |-> EmptyMap]
    /\ co_attainment = [r \in Reqs |-> EmptyMap]
    /\ response = [r \in Reqs |-> NoResponse]
    /\ user = LoggedIn

\* Requests alone over one of these stores.
SpecStores == InitStores /\ [][RequestStep]_vars

\* ------------------------------------------------------------------ callers

\* The users a request may come from: every role, with or without a program,
\* and the caller without credentials.
Callers ==
    {[is_authenticated |-> TRUE, role |-> ro, program |-> p] :
        ro \in ROLE_CHOICES, p \in {0, 1}}
    \cup {AnonymousUser}

\* The database of Init with an assessment, marks and mappings, and any two
\* callers at the two workers.
InitCallers ==
    /\ programs = {1, 2}
    /\ courses = (1 :> [program |-> 1])
    /\ sections = (1 :> [program |-> 1])
    /\ students = {1, 2}
    /\ enrollments = {[course |-> 1, student |-> 1, section |-> 1]}
    /\ course_outcomes = (1 :> [course |-> 1]) @@ (2 :> [course |-> 1])
    /\ program_outcomes = (1 :> [program |-> 1])
    /\ co_po_mappings = {[course |-> 1, co |-> 1, po |-> 1, level |-> 3],
                         [course |-> 1, co |-> 2, po |-> 1, level |-> 2]}
    /\ assessments =
          (1 :> [section |-> 1,
                 questions |-> << [q |-> 1, maxMarks |-> MaxMark, coIds |-> <<1, 2>>] >>])
    /\ marks = {[student |-> 1, assessment |-> 1,
                 scores |-> << [q |-> 1, marks |-> MaxMark] >>]}
    /\ pc = [r \in Reqs |-> "idle"]
    /\ kwargs = [r \in Reqs |-> NoRequest]
    /\ todo = [r \in Reqs |-> <<>>]
    /\ po_attainment = [r \in Reqs |-> EmptyMap]
    /\ co_attainment = [r \in Reqs |-> EmptyMap]
    /\ response = [r \in Reqs |-> NoResponse]
    /\ user \in [Reqs -> Callers]

\* Requests alone, from any two callers.
SpecCallers == InitCallers /\ [][RequestStep]_vars

\* ------------------------------------------------------------------ storage faults

\* The steps of a request that read the store: the lookup with the querysets
\* built after it, a round of the loop over the courses or the enrollments,
\* and the call of calculate_co_attainment.
ReadsStore(r) ==
    \/ pc[r] \in {"get", "calc"}
    \/ pc[r] \in {"courses", "enrollments"} /\ todo[r] # <<>>

\* A loop that catches the failure of a read and goes on with the next row.
StorageFaultSwallowed(r) ==
    /\ pc[r] \in {"courses", "enrollments"} /\ todo[r] # <<>>
    /\ todo' = [todo EXCEPT ![r] = Tail(@)]
    /\ UNCHANGED <<pc, kwargs, po_attainment, co_attainment, response>>
    /\ UNCHANGED user
    /\ ReadOnly

\* A read of the store fails (the database is away, a query is cut off): the
\* ORM call raises an exception that is not DoesNotExist.  The try blocks of
\* the views catch DoesNotExist alone, so the exception leaves get() and the
\* framework answers 500; the locals of get() are gone with it.
StorageFault(r) ==
    /\ ReadsStore(r)
    /\ response' = [response EXCEPT ![r] = ServerError]
    /\ pc' = [pc EXCEPT ![r] = "done"]
    /\ todo' = [todo EXCEPT ![r] = <<>>]
    /\ po_attainment' = [po_attainment EXCEPT ![r] = EmptyMap]
    /\ co_attainment' = [co_attainment EXCEPT ![r] = EmptyMap]
    /\ UNCHANGED kwargs
    /\ UNCHANGED user
    /\ ReadOnly

Fault == \E r \in Reqs : StorageFault(r)

NextFaults == RequestStep \/ Fault

\* Requests over an unchanging store whose reads may fail.
SpecFaults == Init /\ [][NextFaults]_vars

\* ------------------------------------------------------------------ whole handlers

\* "for course in courses" of ProgramAttainmentView.get run to its end.
RECURSIVE RunCourses(_, _)
RunCourses(rest, po_att) ==
    IF rest = <<>> THEN ProgramResponse(po_att)
    ELSE LET co_att == ProgramCalculateCoAttainment(Head(rest))
         IN IF co_att.ok
            THEN RunCourses(Tail(rest),
                     AppendMappings(po_att, co_att.value, MappingsOfCourse(Head(rest))))
            ELSE ServerError

\* "for enrollment in enrollments" of StudentAttainmentView.get run to its end.
RECURSIVE RunEnrollments(_, _, _)
RunEnrollments(rest, acc, student) ==
    IF rest = <<>> THEN CoResponse(Reduce(acc))
    ELSE LET q == AssessmentsOfEnrollment(Head(rest))
             a1 == AddStudentAssessments(acc, q.rows, student)
         IN IF q.ok /\ a1.ok THEN RunEnrollments(Tail(rest), a1.value, student)
            ELSE ServerError

\* What get() answers when nothing else runs between its first line and its
\* return.
Handle(req) ==
    CASE req.view = "program" ->
            IF ObjectsGet("program", req.id)
            THEN RunCourses(OrderedIds(CoursesOfProgram(req.id)), EmptyMap)
            ELSE NotFound("program")
      [] req.view = "course" ->
            IF ObjectsGet("course", req.id)
            THEN LET co_att == CourseCalculateCoAttainment(req.id)
                 IN IF co_att.ok THEN CoResponse(co_att.value) ELSE ServerError
            ELSE NotFound("course")
      [] req.view = "student" ->
            IF ObjectsGet("student", req.id)
            THEN RunEnrollments(OrderedEnrollments(EnrollmentsOfStudent(req.id)),
                                EmptyMap, req.id)
            ELSE NotFound("student")

\* ------------------------------------------------------------------ report views

\* The attributes a view object carries when its get() runs.  as_view()
\* makes the object and calls setup() and dispatch() on it, which set
\* request, args, kwargs, headers and format_kwarg; an object made by calling
\* the class, as in ProgramAttainmentView(), has none of them.
ViewAttributes(made) ==
    IF made = "as_view"
    THEN {"request", "args", "kwargs", "headers", "format_kwarg"}
    ELSE {}

\* po_attainment_view = ProgramAttainmentView();
\* po_attainment_view.get(request, *args, **kwargs).data, and the same with
\* CourseAttainmentView: the first statement of that get() reads self.kwargs,
\* an AttributeError on an object without the attribute; nothing catches it.
InnerGet(view, id) ==
    IF "kwargs" \in ViewAttributes("constructor")
    THEN Handle([view |-> view, id |-> id])
    ELSE ServerError

\* The requests of reports/program/<program_id>/ and reports/course/<course_id>/
ReportRequests ==
    {[view |-> "program_report", id |-> i] : i \in ProgramIds}
    \cup {[view |-> "course_report", id |-> i] : i \in CourseIds}

\* A report request arrives; permission_classes = [IsAuthenticated].
BeginReport(r) ==
    /\ pc[r] = "idle"
    /\ \E req \in ReportRequests : kwargs' = [kwargs EXCEPT ![r] = req]
    /\ IF HasPermission(r)
       THEN /\ pc' = [pc EXCEPT ![r] = "get"]
            /\ UNCHANGED response
       ELSE /\ pc' = [pc EXCEPT ![r] = "done"]
            /\ response' = [response EXCEPT ![r] = PermissionDenied]
    /\ UNCHANGED <<todo, po_attainment, co_attainment>>
    /\ UNCHANGED user
    /\ ReadOnly

\* ProgramReportView.get: its own lookup, then the attainment view's data
\* under the keys program and po_attainment.
ProgramReportGet(r) ==
    /\ pc[r] = "get" /\ kwargs[r].view = "program_report"
    /\ response' = [response EXCEPT ![r] =
          IF ObjectsGet("program", LookupId(r))
          THEN InnerGet("program", LookupId(r))
          ELSE NotFound("program")]
    /\ pc' = [pc EXCEPT ![r] = "done"]
    /\ UNCHANGED <<kwargs, todo, po_attainment, co_attainment>>
    /\ UNCHANGED user
    /\ ReadOnly

\* CourseReportView.get
CourseReportGet(r) ==
    /\ pc[r] = "get" /\ kwargs[r].view = "course_report"
    /\ response' = [response EXCEPT ![r] =
          IF ObjectsGet("course", LookupId(r))
          THEN InnerGet("course", LookupId(r))
          ELSE NotFound("course")]
    /\ pc' = [pc EXCEPT ![r] = "done"]
    /\ UNCHANGED <<kwargs, todo, po_attainment, co_attainment>>
    /\ UNCHANGED user
    /\ ReadOnly

Report ==
    \E r \in Reqs :
        \/ BeginReport(r)
        \/ ProgramReportGet(r)
        \/ CourseReportGet(r)

NextReports == RequestStep \/ Report

\* Attainment and report requests over an unchanging store.
SpecReports == Init /\ [][NextReports]_vars

\* ------------------------------------------------------------------ what the specification expects

\* The store of this code links a section to a course only through an
\* Enrollment row (course, student, section); the sections of a course are
\* read off those rows.
SectionsOf(course) == {e.section : e \in {x \in enrollments : x.course = course}}

AssessmentsIn(secs) == {a \in DOMAIN assessments : assessments[a].section \in secs}

\* The score entries of a set of marks: <<mark, index into mark.scores>>
EntriesOf(rows) == UNION {{<<m, i>> : i \in DOMAIN m.scores} : m \in rows}

\* The score entries a course request has in scope, and a student request.
CourseEntries(course) ==
    EntriesOf({m \in marks : m.assessment \in AssessmentsIn(SectionsOf(course))})

StudentEntries(student) ==
    EntriesOf({m \in marks :
        /\ m.student = student
        /\ \E e \in enrollments :
              /\ e.student = student
              /\ assessments[m.assessment].section = e.section})

EntryScore(e) == e[1].scores[e[2]]

EntryQuestions(e) == assessments[e[1].assessment].questions

IsMatched(e) == \E j \in DOMAIN EntryQuestions(e) : EntryQuestions(e)[j].q = EntryScore(e).q

\* The question an entry is counted with: the first one carrying its q.
EntryQuestion(e) ==
    EntryQuestions(e)[Min({j \in DOMAIN EntryQuestions(e) :
                              EntryQuestions(e)[j].q = EntryScore(e).q})]

Lists(question, c) == \E k \in DOMAIN question.coIds : question.coIds[k] = c

Contributing(entries, c) ==
    {e \in entries : IsMatched(e) /\ Lists(EntryQuestion(e), c)}

RECURSIVE SumMarks(_)
SumMarks(E) ==
    IF E = {} THEN 0
    ELSE LET e == CHOOSE x \in E : TRUE
         IN EntryScore(e).marks + SumMarks(E \ {e})

RECURSIVE SumMaxMarks(_)
SumMaxMarks(E) ==
    IF E = {} THEN 0
    ELSE LET e == CHOOSE x \in E : TRUE
         IN EntryQuestion(e).maxMarks + SumMaxMarks(E \ {e})

\* 100 * S / T, or 0 when T is 0
ExpectedPercentage(entries, c) ==
    LET S == SumMarks(Contributing(entries, c))
        T == SumMaxMarks(Contributing(entries, c))
    IN IF T = 0 THEN Zero ELSE Fraction(100 * S, T)

ExpectedKeys(entries) == {c \in CoIds : Contributing(entries, c) # {}}

ExpectedCoAttainment(entries) ==
    [c \in ExpectedKeys(entries) |-> ExpectedPercentage(entries, c)]

Stored(req) ==
    CASE req.view = "program" -> req.id \in programs
      [] req.view = "course"  -> req.id \in DOMAIN courses
      [] req.view = "student" -> req.id \in students
      [] OTHER -> FALSE

Answered(r, view) == pc[r] = "done" /\ kwargs[r].view = view /\ Stored(kwargs[r])

\* ------------------------------------------------------------------ claims

\* C1: GetCourseAttainment on an existing course returns a mapping in which
\* every CO id c has the value 100 * S / T, S the sum of score.marks and T
\* the sum of question.maxMarks over the score entries of the course's
\* assessments whose question lists c; 0 when T is 0.
C1_CourseValueIsRatio ==
    \A r \in Reqs : Answered(r, "course") =>
        /\ response[r].status = 200
        /\ \A c \in DOMAIN response[r].co_attainment :
              response[r].co_attainment[c] =
                  ExpectedPercentage(CourseEntries(kwargs[r].id), c)

IsFanOut(e) ==
    IsMatched(e) /\ Cardinality({c \in CoIds : Lists(EntryQuestion(e), c)}) >= 2

\* C2: a score entry whose question lists N >= 2 distinct COs counts with its
\* full marks and the question's full maxMarks for each of the N COs, in the
\* course, the student and the program variant: each of these COs is in the
\* result with the undivided ratio.
C2_FanOutUndivided ==
    \A r \in Reqs :
        /\ Answered(r, "course") =>
              \A e \in CourseEntries(kwargs[r].id) : IsFanOut(e) =>
                  /\ response[r].status = 200
                  /\ \A c \in CoIds : Lists(EntryQuestion(e), c) =>
                        /\ c \in DOMAIN response[r].co_attainment
                        /\ response[r].co_attainment[c] =
                              ExpectedPercentage(CourseEntries(kwargs[r].id), c)
        /\ Answered(r, "student") =>
              \A e \in StudentEntries(kwargs[r].id) : IsFanOut(e) =>
                  /\ response[r].status = 200
                  /\ \A c \in CoIds : Lists(EntryQuestion(e), c) =>
                        /\ c \in DOMAIN response[r].co_attainment
                        /\ response[r].co_attainment[c] =
                              ExpectedPercentage(StudentEntries(kwargs[r].id), c)
        /\ Answered(r, "program") =>
              \A m \in co_po_mappings :
                  (/\ courses[m.course].program = kwargs[r].id
                   /\ \E e \in CourseEntries(m.course) :
                         IsFanOut(e) /\ Lists(EntryQuestion(e), m.co)) =>
                  /\ response[r].status = 200
                  /\ m.po \in DOMAIN response[r].po_attainment
                  /\ \E i \in DOMAIN response[r].po_attainment[m.po] :
                        /\ response[r].po_attainment[m.po][i].co = m.co
                        /\ response[r].po_attainment[m.po][i].attainment =
                              ExpectedPercentage(CourseEntries(m.course), m.co)

\* C3: a score entry whose q is the q of no question of its assessment changes
\* no accumulator and raises no error: the course result is the one computed
\* from the matched entries alone.
C3_UnmatchedEntrySkipped ==
    \A r \in Reqs :
        (/\ Answered(r, "course")
         /\ \E e \in CourseEntries(kwargs[r].id) : ~IsMatched(e)) =>
        /\ response[r].status = 200
        /\ response[r].co_attainment =
              ExpectedCoAttainment({e \in CourseEntries(kwargs[r].id) : IsMatched(e)})

\* C4: in GetProgramAttainment, a mapping row of a course of the program whose
\* CO has zero total_marks, or no accumulator at all, gets an entry with
\* attainment 0, and the request does not fail.
C4_RollUpDefaultsToZero ==
    \A r \in Reqs : Answered(r, "program") =>
        \A m \in co_po_mappings :
            (/\ courses[m.course].program = kwargs[r].id
             /\ SumMaxMarks(Contributing(CourseEntries(m.course), m.co)) = 0) =>
            /\ response[r].status = 200
            /\ m.po \in DOMAIN response[r].po_attainment
            /\ \E i \in DOMAIN response[r].po_attainment[m.po] :
                  response[r].po_attainment[m.po][i] =
                      [co |-> m.co, attainment |-> Zero, mapping_level |-> m.level]

\* C5: a request whose id is the id of no stored program (course, student)
\* is answered 404 "not found" straight from the lookup: it never enters the
\* aggregation and never ends in an unhandled error.
C5_NotFound ==
    [][\A r \in Reqs :
          (pc[r] = "get" /\ ~Stored(kwargs[r]) /\ pc'[r] # "get") =>
              /\ pc'[r] = "done"
              /\ response'[r].status = 404
              /\ response'[r].co_attainment = EmptyMap
              /\ response'[r].po_attainment = EmptyMap]_vars

C5_Witness ==
    \E r \in Reqs :
        /\ pc[r] = "done"
        /\ kwargs[r].view \in {"program", "course", "student"}
        /\ ~Stored(kwargs[r])
        /\ response[r].status = 404

RECURSIVE TotalEntries(_)
TotalEntries(buckets) ==
    IF DOMAIN buckets = {} THEN 0
    ELSE LET p == CHOOSE x \in DOMAIN buckets : TRUE
         IN Len(buckets[p]) +
            TotalEntries([x \in DOMAIN buckets \ {p} |-> buckets[x]])

\* C6: GetProgramAttainment on an existing program returns one bucket per PO
\* that some mapping row of the program's courses targets, every such row has
\* exactly one entry {co, the course's percentage for co, level} in its PO's
\* bucket, and there are as many entries as rows.
C6_RollUpStructure ==
    \A r \in Reqs : Answered(r, "program") =>
        LET rows == {m \in co_po_mappings : courses[m.course].program = kwargs[r].id}
            buckets == response[r].po_attainment
        IN /\ response[r].status = 200
           /\ DOMAIN buckets = {m.po : m \in rows}
           /\ \A m \in rows :
                 Cardinality({i \in DOMAIN buckets[m.po] :
                     buckets[m.po][i] =
                         [co |-> m.co,
                          attainment |-> ExpectedPercentage(CourseEntries(m.course), m.co),
                          mapping_level |-> m.level]}) = 1
           /\ TotalEntries(buckets) = Cardinality(rows)

\* C7: GetStudentAttainment on an existing student returns the percentages
\* computed from that student's own marks on the assessments of the sections
\* of the student's enrollments, and from nothing else.
C7_StudentScoped ==
    \A r \in Reqs : Answered(r, "student") =>
        /\ response[r].status = 200
        /\ response[r].co_attainment =
              ExpectedCoAttainment(StudentEntries(kwargs[r].id))

\* C8: no step of an attainment request, found or not found, changes a stored
\* row of any table; the tables have no column for a derived attainment.
C8_NoSideEffects == [][reqVars' # reqVars => storeVars' = storeVars]_vars

C8_Witness ==
    \E r1, r2 \in Reqs :
        /\ pc[r1] = "done" /\ response[r1].status = 404
        /\ pc[r2] = "done" /\ response[r2].status # 404
        /\ marks # {} /\ co_po_mappings # {}

\* C9: whatever writes came before, the result of a request is the
\* aggregation of the store as it is when the request aggregates (stated for
\* the course view, which aggregates in one step).
C9_ResultIsCurrentAggregation ==
    [][\A r \in Reqs :
          (pc[r] = "calc" /\ pc'[r] = "done") =>
              response'[r] =
                  CoResponse(ExpectedCoAttainment(CourseEntries(kwargs[r].id)))]_vars

Locals(r) == <<pc[r], kwargs[r], todo[r], po_attainment[r], co_attainment[r], response[r]>>

\* C10: over an unchanging store, a step of one request leaves the locals of
\* every other request alone, and a request that ends, however its steps were
\* interleaved with another's, answers what it answers when run alone.
C10_Independent ==
    [][\A r \in Reqs :
          /\ (Locals(r)' # Locals(r)) =>
                \A q \in Reqs \ {r} : Locals(q)' = Locals(q)
          /\ (pc[r] # "done" /\ pc'[r] = "done") =>
                response'[r] = Handle(kwargs[r])]_vars

C10_Witness ==
    /\ pc[1] = "courses" /\ todo[1] # <<>>
    /\ pc[2] = "enrollments" /\ todo[2] # <<>>

\* A score entry the loops can index throughout: it carries q and marks, and
\* the question it is matched with, if any, carries coIds and maxMarks.
WellFormed(questions, score) ==
    /\ {"q", "marks"} \subseteq DOMAIN score
    /\ \A i \in DOMAIN questions : "q" \in DOMAIN questions[i]
    /\ LET hits == {i \in DOMAIN questions : questions[i].q = score.q}
       IN hits # {} => {"coIds", "maxMarks"} \subseteq DOMAIN questions[Min(hits)]

\* The marks of an assessment without their malformed score entries.
WellFormedMarks(a) ==
    {[m EXCEPT !.scores =
         SelectSeq(@, LAMBDA sc : WellFormed(assessments[a].questions, sc))] :
       m \in MarksOfAssessment(a)}

\* C11: malformed data raises no error: for every stored assessment, also one
\* with a score entry without q or marks or a matched question without coIds
\* or maxMarks, the loops over its marks complete, and the accumulators are
\* those of the well-formed entries alone.
C11_MalformedIgnored ==
    \A a \in DOMAIN assessments :
        LET questions == assessments[a].questions
            got == AddMarks(EmptyMap, questions, MarksOfAssessment(a))
        IN /\ got.ok
           /\ got.value = AddMarks(EmptyMap, questions, WellFormedMarks(a)).value

\* Every score entry of the store is well formed.
StoreWellFormed ==
    \A m \in marks : \A i \in DOMAIN m.scores :
        WellFormed(assessments[m.assessment].questions, m.scores[i])

\* A percentage n / d lies in [0, 100].
InRange(p) == 0 <= p[1] /\ p[1] <= 100 * p[2]

\* The matched entries carry 0 <= marks <= maxMarks.
WithinMaxMarks(entries) ==
    \A e \in entries : IsMatched(e) =>
        /\ 0 <= EntryScore(e).marks
        /\ EntryScore(e).marks <= EntryQuestion(e).maxMarks

\* C12: when every matched score has 0 <= marks <= maxMarks, every percentage
\* of a course, student or program result lies in [0, 100]; nothing is
\* clamped: a CO whose ratio exceeds 100, through a score above maxMarks, is
\* returned with that ratio.
C12_RangeUnclamped ==
    \A r \in Reqs : StoreWellFormed =>
        /\ (Answered(r, "course") /\ WithinMaxMarks(CourseEntries(kwargs[r].id))) =>
              \A c \in DOMAIN response[r].co_attainment :
                  InRange(response[r].co_attainment[c])
        /\ (Answered(r, "student") /\ WithinMaxMarks(StudentEntries(kwargs[r].id))) =>
              \A c \in DOMAIN response[r].co_attainment :
                  InRange(response[r].co_attainment[c])
        /\ (Answered(r, "program") /\ WithinMaxMarks(EntriesOf(marks))) =>
              \A p \in DOMAIN response[r].po_attainment :
                  \A i \in DOMAIN response[r].po_attainment[p] :
                      InRange(response[r].po_attainment[p][i].attainment)
        /\ Answered(r, "course") =>
              \A c \in CoIds :
                  ~InRange(ExpectedPercentage(CourseEntries(kwargs[r].id), c)) =>
                      /\ c \in DOMAIN response[r].co_attainment
                      /\ response[r].co_attainment[c] =
                            ExpectedPercentage(CourseEntries(kwargs[r].id), c)

\* C13: when the course aggregator resolves the assessments of a stored
\* course, the resolution succeeds and yields exactly the assessments whose
\* section belongs to that course, none of another section.
C13_CourseScoping ==
    \A r \in Reqs : pc[r] = "calc" =>
        LET q == AssessmentsOfCourse(kwargs[r].id)
        IN /\ q.ok
           /\ q.rows = AssessmentsIn(SectionsOf(kwargs[r].id))

\* The mapping rows of one course as a sequence, in the order of iteration.
RECURSIVE RowsInOrder(_)
RowsInOrder(rows) ==
    IF rows = {} THEN <<>>
    ELSE LET m == CHOOSE x \in rows : \A y \in rows :
                      x.co < y.co \/ (x.co = y.co /\ x.po <= y.po)
         IN <<m>> \o RowsInOrder(rows \ {m})

\* The mapping rows a program request visits: course after course.
RECURSIVE VisitedRows(_)
VisitedRows(courseSeq) ==
    IF courseSeq = <<>> THEN <<>>
    ELSE RowsInOrder({m \in co_po_mappings : m.course = Head(courseSeq)})
         \o VisitedRows(Tail(courseSeq))

\* C14: the bucket of a PO in a program result lists the entries of the
\* mapping rows that target the PO in the order the rows are visited, the
\* courses of the program in turn and the rows of each course in turn; an
\* entry of an earlier course stands before an entry of a later course
\* (stated for stores whose score entries are all well formed).
C14_BucketOrder ==
    \A r \in Reqs : (Answered(r, "program") /\ StoreWellFormed) =>
        \A p \in DOMAIN program_outcomes :
            LET visited == SelectSeq(
                    VisitedRows(OrderedIds({c \in DOMAIN courses :
                                    courses[c].program = kwargs[r].id})),
                    LAMBDA m : m.po = p)
                bucket == IF p \in DOMAIN response[r].po_attainment
                          THEN response[r].po_attainment[p] ELSE <<>>
            IN /\ Len(bucket) = Len(visited)
               /\ \A i \in DOMAIN bucket :
                     /\ bucket[i].co = visited[i].co
                     /\ bucket[i].mapping_level = visited[i].level

\* C15: on the store with one assessment (question 1: 10 marks, CO 1;
\* question 2: 5 marks, COs 1 and 2) and the marks 8, 5 and 6, 3, the course
\* request returns 100 * 22 / 30 for CO 1, 100 * 8 / 10 = 80 for CO 2, and no
\* other key.
C15_WorkedScenario ==
    \A r \in Reqs :
        (/\ Answered(r, "course")
         /\ assessments = WorkedStore.assessments
         /\ marks = WorkedStore.marks
         /\ AssessmentsIn(SectionsOf(kwargs[r].id)) = DOMAIN assessments) =>
        response[r].co_attainment =
            (1 :> Fraction(100 * 22, 30)) @@ (2 :> Fraction(100 * 8, 10))

\* C16: a request whose read of the store fails ends there with the failure
\* and carries no result; every request that ends, ends with the failure or
\* with what get() computes from all the rows of the store, never with a
\* result of a part of them.
C16_FaultIsFatal ==
    [][\A r \in Reqs :
          /\ (pc[r] = "get" /\ Stored(kwargs[r]) /\ pc'[r] = "done") =>
                response'[r] = ServerError
          /\ (pc[r] # "done" /\ pc'[r] = "done") =>
                \/ response'[r] = ServerError
                \/ response'[r] = Handle(kwargs[r])
          /\ (pc[r] # "done" /\ pc'[r] = "done" /\ response'[r] = ServerError) =>
                /\ todo'[r] = <<>>
                /\ po_attainment'[r] = EmptyMap
                /\ co_attainment'[r] = EmptyMap]_vars

\* Program 2 is stored and has no course: only a failed read ends its
\* request with 500.
C16_Witness ==
    \E r \in Reqs :
        /\ pc[r] = "done"
        /\ kwargs[r] = [view |-> "program", id |-> 2]
        /\ 2 \in programs
        /\ response[r] = ServerError

\* C17: two authenticated callers of different roles who send the same
\* request over the same store get the same response: role and program of
\* the caller are read by no step of the views.
C17_RoleAgnostic ==
    \A r1, r2 \in Reqs :
        (/\ pc[r1] = "done" /\ pc[r2] = "done"
         /\ kwargs[r1] = kwargs[r2]
         /\ user[r1].is_authenticated /\ user[r2].is_authenticated
         /\ user[r1].role # user[r2].role) =>
        response[r1] = response[r2]

C17_Witness ==
    \E r1, r2 \in Reqs :
        /\ pc[r1] = "done" /\ pc[r2] = "done"
        /\ kwargs[r1] = kwargs[r2]
        /\ Stored(kwargs[r1])
        /\ user[r1].is_authenticated /\ user[r2].is_authenticated
        /\ user[r1].role = "Teacher" /\ user[r2].role = "University"
        /\ user[r1].program # user[r2].program
        /\ response[r1] = response[r2]
        /\ response[r1].status # 403

\* C18: every store the writers can reach holds at most one CoPoMapping row
\* per (CO, PO) pair, and no PO bucket, of a response or of a request under
\* way, holds two entries for one CO.
C18_MappingUnique ==
    /\ \A m1, m2 \in co_po_mappings :
          (m1.co = m2.co /\ m1.po = m2.po) => m1 = m2
    /\ \A r \in Reqs :
          \A buckets \in {response[r].po_attainment, po_attainment[r]} :
              \A p \in DOMAIN buckets :
                  \A i, j \in DOMAIN buckets[p] :
                      buckets[p][i].co = buckets[p][j].co => i = j

\* Both COs are mapped to PO 1, a create or update for a pair that is taken
\* has nothing to add, and a program request has been answered.
C18_Witness ==
    /\ \A co \in DOMAIN course_outcomes, po \in DOMAIN program_outcomes :
          ~UniqueTogether(co, po, co_po_mappings)
    /\ Cardinality(co_po_mappings) = 2
    /\ \E r \in Reqs :
          pc[r] = "done" /\ kwargs[r] = [view |-> "program", id |-> 1]

\* Two or more questions of the entry's assessment carry the entry's q.
IsAmbiguous(e) ==
    Cardinality({j \in DOMAIN EntryQuestions(e) :
                    EntryQuestions(e)[j].q = EntryScore(e).q}) >= 2

\* The COs that only a later question with the entry's q lists.
LaterOnly(e) ==
    {c \in CoIds :
        /\ ~Lists(EntryQuestion(e), c)
        /\ \E j \in DOMAIN EntryQuestions(e) :
              /\ EntryQuestions(e)[j].q = EntryScore(e).q
              /\ Lists(EntryQuestions(e)[j], c)}

\* C19: a score entry whose q is carried by two or more questions is counted
\* with the maxMarks and the coIds of the first of them: the course result
\* has the first question's COs with the ratios taken over first matches, and
\* a CO that only a later question lists gets nothing from the entry.
C19_FirstMatch ==
    \A r \in Reqs : Answered(r, "course") =>
        LET entries == CourseEntries(kwargs[r].id)
        IN \A e \in entries : IsAmbiguous(e) =>
              /\ \A c \in CoIds : Lists(EntryQuestion(e), c) =>
                    /\ c \in DOMAIN response[r].co_attainment
                    /\ response[r].co_attainment[c] = ExpectedPercentage(entries, c)
              /\ \A c \in LaterOnly(e) :
                    c \in DOMAIN response[r].co_attainment =>
                        /\ Contributing(entries \ {e}, c) # {}
                        /\ response[r].co_attainment[c] =
                              ExpectedPercentage(entries \ {e}, c)

\* The assessments a student request has in scope: those of the sections of
\* the student's enrollments.
StudentAssessments(student) ==
    {a \in DOMAIN assessments :
        \E e \in enrollments :
            e.student = student /\ assessments[a].section = e.section}

\* C20: a student request with an assessment in scope on which the student
\* has no Mark still returns a result, the one computed from the marks the
\* student has; and a student has at most one Mark per assessment.
C20_MissingMarkSkipped ==
    /\ \A m1, m2 \in marks :
          (m1.student = m2.student /\ m1.assessment = m2.assessment) => m1 = m2
    /\ \A r \in Reqs :
          (/\ Answered(r, "student")
           /\ \E a \in StudentAssessments(kwargs[r].id) :
                 MarkOfStudent(a, kwargs[r].id) = {}) =>
          /\ response[r].status = 200
          /\ response[r].co_attainment =
                ExpectedCoAttainment(StudentEntries(kwargs[r].id))

C22_KeySet ==
    \A r \in Reqs : StoreWellFormed =>
        /\ Answered(r, "course") =>
              DOMAIN response[r].co_attainment =
                  ExpectedKeys(CourseEntries(kwargs[r].id))
        /\ Answered(r, "student") =>
              DOMAIN response[r].co_attainment =
                  ExpectedKeys(StudentEntries(kwargs[r].id))

Occurrences(question, c) ==
    Cardinality({k \in DOMAIN question.coIds : question.coIds[k] = c})

\* Marks and maxMarks summed over entries, each entry once per occurrence of
\* c in the coIds of its question.
RECURSIVE SumPerOccurrence(_, _)
SumPerOccurrence(E, c) ==
    IF E = {} THEN [scored |-> 0, total |-> 0]
    ELSE LET e == CHOOSE x \in E : TRUE
             rest == SumPerOccurrence(E \ {e}, c)
             n == Occurrences(EntryQuestion(e), c)
         IN [scored |-> rest.scored + n * EntryScore(e).marks,
             total |-> rest.total + n * EntryQuestion(e).maxMarks]

\* Some mark repeats a q, or some question repeats a CO id.
HasRepeats(entries) ==
    \/ \E e1, e2 \in entries :
          /\ e1[1] = e2[1] /\ e1[2] # e2[2]
          /\ IsMatched(e1) /\ EntryScore(e1).q = EntryScore(e2).q
    \/ \E e \in entries : IsMatched(e) /\
          \E c \in CoIds : Occurrences(EntryQuestion(e), c) >= 2

\* C24: k entries of one mark with the same matched q count k times, and a
\* CO id that occurs n times in a question's coIds counts n times per entry:
\* the course result has, for each CO, 100 * S / T with S and T summed over
\* entries and occurrences, nothing deduplicated.
C24_RepeatsCounted ==
    \A r \in Reqs :
        (/\ Answered(r, "course")
         /\ StoreWellFormed
         /\ HasRepeats(CourseEntries(kwargs[r].id))) =>
        LET entries == CourseEntries(kwargs[r].id)
        IN \A c \in ExpectedKeys(entries) :
              LET sums == SumPerOccurrence(Contributing(entries, c), c)
              IN /\ c \in DOMAIN response[r].co_attainment
                 /\ response[r].co_attainment[c] =
                       IF sums.total = 0 THEN Zero
                       ELSE Fraction(100 * sums.scored, sums.total)

\* The attainment request a report request stands for.
Mirrored(req) ==
    [view |-> IF req.view = "program_report" THEN "program" ELSE "course",
     id |-> req.id]

\* C25: a report request is answered as the attainment request for the same
\* id is: the same program and po_attainment, or course and co_attainment,
\* for a stored id, and 404 "not found" for an id that is not stored.
C25_ReportsMirror ==
    \A r \in Reqs :
        (pc[r] = "done" /\ kwargs[r] \in ReportRequests /\ HasPermission(r)) =>
            response[r] = Handle(Mirrored(kwargs[r]))

====
